---- MODULE Spec2Model ----
(***************************************************************************)
(* Discovery-and-scoring pipeline of the job-search orchestrator: the URL  *)
(* canonicalizer, the SQLite listing store (JobDatabase), the LinkedIn     *)
(* search scraper and description fetcher, the discovery node, the         *)
(* relevance scorer node, and successive pipeline runs on one store.       *)
(*                                                                         *)
(* A URL is a sequence of one-character strings.  SQL NULL / Python None   *)
(* is the string NULL for text columns and NoScore for relevance_score.    *)
(***************************************************************************)
EXTENDS Integers, Sequences, FiniteSets, TLC

VARIABLES
  jobs,       \* the jobs table: its rows in rowid order
  remote,     \* JobDatabase.remote of the store object in use
  persisted,  \* history: ids for which update_scores has modified a row
  last,       \* the store call that returned last: op, arg, ret, after
  urls,       \* canonicalizer inputs: [base, s1, s2], u1 = base \o s1, u2 = base \o s2
  canon,      \* canonicalizer outputs: [pc, c1, c2, id1, id2]
  disc,       \* job_discovery_node: [pc, left, found_jobs, seen_urls]
  hist,       \* history of the discovery runs: [before, firsts, surfaced, twice, addCalls, handed]
  sj,         \* search_jobs: [pc, cards, next, limit, results, open, closes, failed]
  race,       \* two discovery runs on one database file: per run [pc, result, new_urls, found_jobs]
  sd,         \* scrape_job_descriptions: [pc, jobs, next, descriptions, attempted, want, open, closes, opened]
  sc,         \* relevance_scorer_node: [pc, found_jobs, i, all_scores, outcomes, updates, passed, scored_jobs, foreign, orphans]
  adds        \* the last add_jobs call and what was first written per URL: [op, batch, before, ret, written]

storeVars == <<jobs, remote, persisted, last>>
canonVars == <<urls, canon>>
discVars == <<disc, hist>>
otherVars == <<race, adds, sd, sc>>
vars == <<jobs, remote, persisted, last, urls, canon, disc, hist, sj, race, adds, sd, sc>>

(***************************************************************************)
(* Bounds of the model.                                                    *)
(***************************************************************************)
MaxUrls == 2        \* distinct canonical job URLs
MaxBatch == 2       \* longest list handed to a store call
MaxBaseLen == 6     \* longest URL part before the first "?" or "#"
MaxSuffixLen == 2   \* longest query-and-fragment part
MaxCards == 2       \* most listings one search_jobs call returns to the node
MaxQueries == 2     \* most search queries of one pipeline run
MaxJobs == 2        \* most listings handed to scrape_job_descriptions
MaxFound == 6       \* most listings in the found_jobs a scoring run starts from

(***************************************************************************)
(* Generic helpers.                                                        *)
(***************************************************************************)
SeqsUpTo(S, n) == UNION {[1..k -> S] : k \in 0..n}

Range(s) == {s[i] : i \in DOMAIN s}

\* str.find(c, start) on a 1-based sequence: the first index >= start holding
\* c, or 0 when there is none.
Find(s, c, start) ==
  LET hits == {i \in start..Len(s) : s[i] = c}
  IN IF hits = {} THEN 0 ELSE CHOOSE i \in hits : \A j \in hits : i <= j

(***************************************************************************)
(* Canonicalizer: urllib.parse.urlsplit and _canonicalize_job_url.         *)
(***************************************************************************)
\* "a" stands for a letter; letters, digits and "+-." are scheme characters.
SchemeChars == {"a"}
Alpha == {"a"}

\* _splitnetloc(url, 2): the netloc ends at the first of "/", "?", "#".
SplitNetloc(url) ==
  LET ends == {Find(url, c, 3) : c \in {"/", "?", "#"}} \ {0}
      delim == IF ends = {} THEN Len(url) + 1
               ELSE CHOOSE i \in ends : \A j \in ends : i <= j
  IN [netloc |-> SubSeq(url, 3, delim - 1), rest |-> SubSeq(url, delim, Len(url))]

\* urlsplit(url), last step: the query is what follows the first "?" of the
\* rest, the path what precedes it.
SplitQuery(scheme, netloc, rest, fragment) ==
  LET q == Find(rest, "?", 1)
  IN [scheme |-> scheme, netloc |-> netloc,
      path |-> IF q > 0 THEN SubSeq(rest, 1, q - 1) ELSE rest,
      query |-> IF q > 0 THEN SubSeq(rest, q + 1, Len(rest)) ELSE <<>>,
      fragment |-> fragment]

\* urlsplit(url), third step: the fragment is what follows the first "#".
SplitFragment(scheme, netloc, rest) ==
  LET h == Find(rest, "#", 1)
  IN SplitQuery(scheme, netloc,
                IF h > 0 THEN SubSeq(rest, 1, h - 1) ELSE rest,
                IF h > 0 THEN SubSeq(rest, h + 1, Len(rest)) ELSE <<>>)

\* urlsplit(url), second step: a rest that starts with "//" has a netloc.
SplitAuthority(scheme, rest) ==
  LET hasNetloc == Len(rest) >= 2 /\ rest[1] = "/" /\ rest[2] = "/"
      parts == SplitNetloc(rest)
  IN SplitFragment(scheme,
                   IF hasNetloc THEN parts.netloc ELSE <<>>,
                   IF hasNetloc THEN parts.rest ELSE rest)

\* urlsplit(url): scheme, netloc, path, query, fragment. First step: the
\* scheme is what precedes the first ":", if it starts with a letter and
\* holds scheme characters only.
UrlSplit(url) ==
  LET i == Find(url, ":", 1)
      hasScheme == /\ i > 1
                   /\ url[1] \in Alpha
                   /\ \A k \in 1..(i - 1) : url[k] \in SchemeChars
  IN SplitAuthority(IF hasScheme THEN SubSeq(url, 1, i - 1) ELSE <<>>,
                    IF hasScheme THEN SubSeq(url, i + 1, Len(url)) ELSE url)

\* _canonicalize_job_url dropping only the fragment (the query survives).
CanonicalizeKeepQuery(url) ==
  LET parts == UrlSplit(url)
  IN IF parts.scheme = <<>> \/ parts.netloc = <<>> THEN url
     ELSE parts.scheme \o <<":", "/", "/">> \o parts.netloc \o parts.path
          \o (IF parts.query = <<>> THEN <<>> ELSE <<"?">> \o parts.query)

CanonicalizeJobUrl(url) ==
  LET parts == UrlSplit(url)
  IN IF parts.scheme = <<>> \/ parts.netloc = <<>> THEN url
     ELSE parts.scheme \o <<":", "/", "/">> \o parts.netloc \o parts.path

\* hashlib.md5(canonical_url).hexdigest(): equal inputs give equal digests and,
\* on the URLs of the model, different inputs give different digests.
Md5Hex(url) == <<"md5">> \o url

BaseChars == {"a", ":", "/"}
SuffixChars == {"a", "?", "#"}
Bases == SeqsUpTo(BaseChars, MaxBaseLen) \ {<<>>}
Suffixes == {s \in SeqsUpTo(SuffixChars, MaxSuffixLen) : s = <<>> \/ s[1] \in {"?", "#"}}

(***************************************************************************)
(* Listings (src/schema/job.py) and the inputs of the store calls.         *)
(***************************************************************************)
NULL == "NULL"
NoScore == -1

\* The i-th canonical job URL: scheme "a", host "a", a path of i letters.
Url(i) == <<"a", ":", "/", "/", "a", "/">> \o [k \in 1..i |-> "a"]
JobUrls == {Url(i) : i \in 1..MaxUrls}

NoDate == [kind |-> "none", ymd |-> <<>>]

\* The descriptive fields of a card: nothing parsed, or everything parsed.
BarePayload ==
  [title |-> NULL, company |-> NULL, location |-> NULL, description |-> NULL,
   date_posted |-> NoDate]
FullPayload ==
  [title |-> "ML Engineer", company |-> "Acme", location |-> "Berlin",
   description |-> "snippet", date_posted |-> [kind |-> "date", ymd |-> <<2024, 1, 5>>]]

\* JobListing with id = md5(job_url), as search_jobs builds it.
Listing(url, p) ==
  [id |-> Md5Hex(url), title |-> p.title, company |-> p.company, job_url |-> url,
   location |-> p.location, description |-> p.description,
   date_posted |-> p.date_posted]

\* One listing per URL, and a second, differently parsed one for the first URL.
Listings == {Listing(u, FullPayload) : u \in JobUrls} \cup {Listing(Url(1), BarePayload)}
Batches == SeqsUpTo(Listings, MaxBatch)

\* remote_filters[0] if len(remote_filters) == 1 else ""
Tags == {""}

UnknownId == <<"doesnotexist">>
ScorePairs ==
  {<<Md5Hex(u), 87>> : u \in JobUrls} \cup {<<Md5Hex(Url(1)), 50>>, <<UnknownId, 50>>}
ScoreLists == SeqsUpTo(ScorePairs, MaxBatch)
UrlLists == SeqsUpTo(JobUrls, MaxBatch)

(***************************************************************************)
(* The listing store: JobDatabase (src/utils/storage.py).                  *)
(***************************************************************************)
\* date.isoformat() / datetime.date().isoformat() of lines 63-68.
NormalizeDate(d) ==
  IF d.kind \in {"date", "datetime"} THEN [kind |-> "iso", ymd |-> d.ymd] ELSE d

\* The tuple add_jobs builds for a listing, with the columns' defaults.
RowOf(job, tag) ==
  [id |-> job.id, url |-> job.job_url, title |-> job.title, company |-> job.company,
   date_posted |-> NormalizeDate(job.date_posted), location |-> job.location,
   remote |-> tag, status |-> "discovered", relevance_score |-> NoScore]

\* A connection is the table and sqlite3's total_changes counter.
\* INSERT OR REPLACE: the rows the new row conflicts with are deleted and the
\* new row is inserted.
InsertOrReplace(conn, row) ==
  [table |-> Append(SelectSeq(conn.table, LAMBDA r : r.id # row.id /\ r.url # row.url), row),
   changes |-> conn.changes + 1]

\* INSERT ... ON CONFLICT(url) DO UPDATE: the descriptive columns of the row
\* that holds the url are overwritten with the new row's.
InsertOrUpdate(conn, row) ==
  IF \E i \in DOMAIN conn.table : conn.table[i].id = row.id \/ conn.table[i].url = row.url
  THEN [table |-> [i \in DOMAIN conn.table |->
                     IF conn.table[i].url = row.url
                     THEN [row EXCEPT !.status = conn.table[i].status,
                                      !.relevance_score = conn.table[i].relevance_score]
                     ELSE conn.table[i]],
        changes |-> conn.changes + 1]
  ELSE [table |-> Append(conn.table, row), changes |-> conn.changes + 1]

\* INSERT OR IGNORE: a row that conflicts on id (PRIMARY KEY) or url (UNIQUE)
\* is dropped and changes nothing.
InsertOrIgnore(conn, row) ==
  IF \E i \in DOMAIN conn.table : conn.table[i].id = row.id \/ conn.table[i].url = row.url
  THEN conn
  ELSE [table |-> Append(conn.table, row), changes |-> conn.changes + 1]

RECURSIVE InsertMany(_, _)
InsertMany(conn, rows) ==
  IF rows = <<>> THEN conn
  ELSE InsertMany(InsertOrIgnore(conn, Head(rows)), Tail(rows))

\* add_jobs returning the number of listings it was given.
AddJobsCountsBatch(table, tag, batch) ==
  [table |-> InsertMany([table |-> table, changes |-> 0],
                        [i \in DOMAIN batch |-> RowOf(batch[i], tag)]).table,
   ret |-> Len(batch)]

\* add_jobs building its rows from the batch back to front.
AddJobsLastWins(table, tag, batch) ==
  IF batch = <<>> THEN [table |-> table, ret |-> 0]
  ELSE LET before == [table |-> table, changes |-> 0]
           conn == InsertMany(before, [i \in DOMAIN batch |->
                                         RowOf(batch[Len(batch) + 1 - i], tag)])
       IN [table |-> conn.table, ret |-> conn.changes - before.changes]

AddJobs(table, tag, batch) ==
  IF batch = <<>> THEN [table |-> table, ret |-> 0]
  ELSE LET before == [table |-> table, changes |-> 0]
           conn == InsertMany(before, [i \in DOMAIN batch |-> RowOf(batch[i], tag)])
       IN [table |-> conn.table, ret |-> conn.changes - before.changes]

\* get_new_jobs selecting the id column instead of the url column.
GetNewJobsById(table, urlList) ==
  IF urlList = <<>> THEN <<>>
  ELSE LET existing == {table[i].id : i \in DOMAIN table} \cap Range(urlList)
       IN SelectSeq(urlList, LAMBDA u : u \notin existing)

GetNewJobs(table, urlList) ==
  IF urlList = <<>> THEN <<>>
  ELSE LET existing == {table[i].url : i \in DOMAIN table} \cap Range(urlList)
       IN SelectSeq(urlList, LAMBDA u : u \notin existing)

\* UPDATE jobs SET relevance_score = ?, status = 'scored' WHERE id = ?
UpdateOne(conn, pair) ==
  LET hit == {i \in DOMAIN conn.table : conn.table[i].id = pair[1]}
  IN [table |-> [i \in DOMAIN conn.table |->
                   IF i \in hit
                   THEN [conn.table[i] EXCEPT !.relevance_score = pair[2],
                                              !.status = "scored"]
                   ELSE conn.table[i]],
      changes |-> conn.changes + Cardinality(hit)]

RECURSIVE UpdateMany(_, _)
UpdateMany(conn, pairs) ==
  IF pairs = <<>> THEN conn
  ELSE UpdateMany(UpdateOne(conn, Head(pairs)), Tail(pairs))

\* update_scores returning the number of pairs it was given.
UpdateScoresCountsPairs(table, scores) ==
  [table |-> UpdateMany([table |-> table, changes |-> 0], scores).table,
   ret |-> Len(scores)]

UpdateScores(table, scores) ==
  IF scores = <<>> THEN [table |-> table, ret |-> 0]
  ELSE LET before == [table |-> table, changes |-> 0]
           conn == UpdateMany(before, scores)
       IN [table |-> conn.table, ret |-> conn.changes - before.changes]

\* __post_init__: the table exists already or is created empty; rows that are
\* not the lowest-rowid row of their url are deleted.
PostInit(table) ==
  LET keep == {i \in DOMAIN table : \A j \in DOMAIN table : table[j].url = table[i].url => i <= j}
      F[i \in 0..Len(table)] ==
        IF i = 0 THEN <<>>
        ELSE IF i \in keep THEN Append(F[i - 1], table[i]) ELSE F[i - 1]
  IN F[Len(table)]

\* The record of a store call: op, the listings an add_jobs call was given (as
\* a set), the value returned, and what the call was given.
\*   after: for an add_jobs or get_new_jobs call that comes right after
\*          add_jobs(L) and is given the listings of L again (the job_urls of
\*          L), the count that earlier add_jobs returned; -1 for any other call
\*   given: the length of the list passed
\*   hits:  update_scores: how many of the pairs name an id the table held
\*   want:  update_scores: for each such id, the score of the last pair naming it
\*   changed: whether the table after the call differs from the table before
Call(op, listed, ret, after, given, hits, want, changed) ==
  [op |-> op, listed |-> listed, ret |-> ret, after |-> after, given |-> given,
   hits |-> hits, want |-> want, changed |-> changed]

\* Nothing has been called on the store yet.
NoCall == Call("none", {}, 0, -1, 0, 0, {}, FALSE)

\* The canonicalizer is not in use.
CanonIdle ==
  /\ urls = [base |-> <<>>, s1 |-> <<>>, s2 |-> <<>>]
  /\ canon = [pc |-> "idle", c1 |-> <<>>, c2 |-> <<>>, id1 |-> <<>>, id2 |-> <<>>]

\* The URLs a listing handed to the discovery node can carry: a job URL, or
\* the empty string.
CardUrls == JobUrls \cup {<<>>}

NoHistory ==
  [before |-> {}, firsts |-> <<>>, surfaced |-> {}, twice |-> {}, addCalls |-> [u \in CardUrls |-> 0],
   handed |-> [u \in CardUrls |-> 0]]

\* search_jobs has not been called.
SearchIdle ==
  sj = [pc |-> "idle", cards |-> <<>>, next |-> 1, limit |-> 0, results |-> <<>>,
        open |-> FALSE, closes |-> 0, failed |-> FALSE]

\* No pipeline run has started.
DiscIdle ==
  /\ disc = [pc |-> "idle", left |-> 0, found_jobs |-> <<>>, seen_urls |-> {}]
  /\ hist = NoHistory

\* The two runs sharing a database file: neither has started.
Runs == {1, 2}
RaceIdle ==
  race = [r \in Runs |-> [pc |-> "idle", result |-> <<>>, new_urls |-> {}, found_jobs |-> <<>>]]

\* The descriptive columns of a row: what add_jobs writes from the listing
\* and the store's remote tag.
Written(row) ==
  [title |-> row.title, company |-> row.company, location |-> row.location,
   date_posted |-> row.date_posted, remote |-> row.remote]
NeverWritten == [title |-> NULL, company |-> NULL, location |-> NULL,
                 date_posted |-> NoDate, remote |-> NULL]

\* No add_jobs call is on record.
NoAddJobs(written) ==
  [op |-> "other", batch |-> <<>>, before |-> <<>>, ret |-> 0, written |-> written]
AddsIdle == adds = NoAddJobs([u \in JobUrls |-> NeverWritten])

\* The ids of the listings scrape_job_descriptions can be given.  The dict
\* descriptions maps each id to its text, NULL standing for a key it lacks.
FetchIds == {l.id : l \in Listings} \cup {Md5Hex(<<>>)}
NoDescriptions == [id \in FetchIds |-> NULL]

\* scrape_job_descriptions has not been called.
FetchIdleState ==
  [pc |-> "idle", jobs |-> <<>>, next |-> 1, descriptions |-> NoDescriptions,
   attempted |-> <<>>, want |-> NoDescriptions, open |-> FALSE, closes |-> 0,
   opened |-> 0]
FetchIdle == sd = FetchIdleState

\* relevance_scorer_node is not running.  History kept from run to run:
\* foreign, whether the scorer ever returned an id it was not given; orphans,
\* the ids of the rows that were unscored when the last run ended.
ScorerIdleState(foreign, orphans) ==
  [pc |-> "idle", found_jobs |-> <<>>, i |-> 0, all_scores |-> <<>>, outcomes |-> <<>>,
   updates |-> 0, passed |-> <<>>, scored_jobs |-> <<>>, foreign |-> foreign,
   orphans |-> orphans]
ScorerIdle == sc = ScorerIdleState(FALSE, {})

\* Nothing else is in use.
OthersIdle ==
  /\ RaceIdle
  /\ AddsIdle
  /\ FetchIdle
  /\ ScorerIdle

\* No database file yet; JobDatabase(remote=tag) creates it.
InitStore ==
  /\ jobs = PostInit(<<>>)
  /\ remote \in Tags
  /\ persisted = {}
  /\ last = NoCall
  /\ CanonIdle
  /\ DiscIdle
  /\ SearchIdle
  /\ OthersIdle

\* JobDatabase(remote=tag) on the existing file.
Construct ==
  \E tag \in Tags :
    /\ jobs' = PostInit(jobs)
    /\ remote' = tag
    /\ last' = Call("construct", {}, 0, -1, 0, 0, {}, PostInit(jobs) # jobs)
    /\ UNCHANGED <<persisted, canonVars, discVars, sj, otherVars>>

IdsIn(table) == {table[i].id : i \in DOMAIN table}

StoredUrls(table) == {table[i].url : i \in DOMAIN table}

\* db.add_jobs(batch)
CallAddJobs ==
  \E batch \in Batches :
    LET r == AddJobs(jobs, remote, batch)
    IN /\ jobs' = r.table
       /\ last' = Call("add_jobs", Range(batch), r.ret,
                       IF last.op = "add_jobs" /\ last.listed = Range(batch)
                       THEN last.ret ELSE -1,
                       Len(batch), 0, {}, r.table # jobs)
       /\ UNCHANGED <<remote, persisted, canonVars, discVars, sj, otherVars>>

\* db.get_new_jobs(urlList)
CallGetNewJobs ==
  \E urlList \in UrlLists :
    /\ last' = Call("get_new_jobs", {}, GetNewJobs(jobs, urlList),
                    IF /\ last.op = "add_jobs"
                       /\ Range(urlList) = {l.job_url : l \in last.listed}
                    THEN last.ret ELSE -1,
                    Len(urlList), 0, {}, FALSE)
    /\ UNCHANGED <<jobs, remote, persisted, canonVars, discVars, sj, otherVars>>

\* db.update_scores(scores)
CallUpdateScores ==
  \E scores \in ScoreLists :
    LET r == UpdateScores(jobs, scores)
        found == {n \in DOMAIN scores : scores[n][1] \in IdsIn(jobs)}
        final == {n \in found : \A m \in found : scores[m][1] = scores[n][1] => m <= n}
    IN /\ jobs' = r.table
       /\ persisted' = persisted \cup {scores[n][1] : n \in found}
       /\ last' = Call("update_scores", {}, r.ret, -1, Len(scores),
                       Cardinality(found), {scores[n] : n \in final},
                       r.table # jobs)
       /\ UNCHANGED <<remote, canonVars, discVars, sj, otherVars>>

NextStore == Construct \/ CallAddJobs \/ CallGetNewJobs \/ CallUpdateScores

SpecStore == InitStore /\ [][NextStore]_vars

\* The store is not in use.
StoreIdle ==
  /\ jobs = <<>>
  /\ remote = ""
  /\ persisted = {}
  /\ last = NoCall

\* Two hrefs that differ only in what follows the first "?" or "#".
InitCanon ==
  /\ urls \in [base : Bases, s1 : Suffixes, s2 : Suffixes]
  /\ canon = [pc |-> "input", c1 |-> <<>>, c2 |-> <<>>, id1 |-> <<>>, id2 |-> <<>>]
  /\ StoreIdle
  /\ DiscIdle
  /\ SearchIdle
  /\ OthersIdle

\* Two result cards whose hrefs are u1 and u2: lines 166-177 of search_jobs.
Canonicalize ==
  /\ canon.pc = "input"
  /\ LET c1 == CanonicalizeJobUrl(urls.base \o urls.s1)
         c2 == CanonicalizeJobUrl(urls.base \o urls.s2)
     IN canon' = [pc |-> "done", c1 |-> c1, c2 |-> c2,
                  id1 |-> Md5Hex(c1), id2 |-> Md5Hex(c2)]
  /\ UNCHANGED urls

NextCanon == Canonicalize /\ UNCHANGED <<storeVars, discVars, sj, otherVars>>

SpecCanon == InitCanon /\ [][NextCanon]_vars

(***************************************************************************)
(* The discovery node: job_discovery_node (src/agents/nodes.py).           *)
(***************************************************************************)
\* What search_jobs can hand back for one query: up to MaxCards listings,
\* among them listings with an empty job_url.
CardListings == Listings \cup {Listing(<<>>, BarePayload)}
ScraperResults == SeqsUpTo(CardListings, MaxCards)

UrlsOf(list) == [i \in DOMAIN list |-> list[i].job_url]

\* Lines 121-125 appending every filtered job, seen or not.
RECURSIVE MergeKeepingAll(_, _)
MergeKeepingAll(acc, filtered) ==
  IF filtered = <<>> THEN acc
  ELSE MergeKeepingAll([found_jobs |-> Append(acc.found_jobs, Head(filtered)),
                        seen_urls |-> acc.seen_urls \cup {Head(filtered).job_url}],
                       Tail(filtered))

\* Lines 121-125: a job whose URL was seen in this run is skipped, any other
\* is appended to found_jobs and its URL added to seen_urls.
RECURSIVE Merge(_, _)
Merge(acc, filtered) ==
  IF filtered = <<>> THEN acc
  ELSE Merge(IF Head(filtered).job_url \in acc.seen_urls THEN acc
             ELSE [found_jobs |-> Append(acc.found_jobs, Head(filtered)),
                   seen_urls |-> acc.seen_urls \cup {Head(filtered).job_url}],
             Tail(filtered))

\* Line 117 keeping every job, new to the store or not.
FilterNewKeepingAll(result, new_urls) == result

\* Line 117: the jobs whose URL get_new_jobs reported as new.
FilterNew(result, new_urls) ==
  SelectSeq(result, LAMBDA job : job.job_url \in new_urls)

\* Lines 115-119 and 121-125 for the listings of one query: the store after
\* add_jobs, the jobs handed to add_jobs, and found_jobs / seen_urls.
ProcessQuery(table, tag, acc, result) ==
  LET urlList == SelectSeq(UrlsOf(result), LAMBDA u : u # <<>>)
      new_urls == Range(GetNewJobs(table, urlList))
      filtered_jobs == FilterNew(result, new_urls)
  IN [table |-> IF filtered_jobs # <<>> THEN AddJobs(table, tag, filtered_jobs).table
                ELSE table,
      added |-> filtered_jobs,
      acc |-> Merge(acc, filtered_jobs)]

\* History: the listings the scraper returned in this run with a non-empty URL
\* that the store did not hold when the run began, the first one for each URL,
\* in the order the scraper returned them.
RECURSIVE FirstOccurrences(_, _, _)
FirstOccurrences(firsts, before, result) ==
  IF result = <<>> THEN firsts
  ELSE FirstOccurrences(
         IF \/ Head(result).job_url = <<>>
            \/ Head(result).job_url \in before
            \/ Head(result).job_url \in Range(UrlsOf(firsts))
         THEN firsts ELSE Append(firsts, Head(result)),
         before, Tail(result))

InitDiscovery ==
  /\ jobs = <<>>
  /\ remote = ""
  /\ persisted = {}
  /\ last = NoCall
  /\ CanonIdle
  /\ DiscIdle
  /\ SearchIdle
  /\ OthersIdle

\* Lines 84-102: no queries returns at once; otherwise the store is opened.
StartRun ==
  /\ disc.pc \in {"idle", "returned", "raised"}
  /\ \E n \in 0..MaxQueries, tag \in Tags :
       IF n = 0
       THEN /\ disc' = [pc |-> "returned", left |-> 0, found_jobs |-> <<>>,
                        seen_urls |-> {}]
            /\ hist' = [NoHistory EXCEPT !.before = StoredUrls(jobs),
                                         !.handed = hist.handed]
            /\ UNCHANGED <<jobs, remote>>
       ELSE /\ jobs' = PostInit(jobs)
            /\ remote' = tag
            /\ disc' = [pc |-> "running", left |-> n, found_jobs |-> <<>>,
                        seen_urls |-> {}]
            /\ hist' = [NoHistory EXCEPT !.before = StoredUrls(PostInit(jobs)),
                                         !.handed = hist.handed]
  /\ UNCHANGED <<persisted, last, canonVars, sj, otherVars>>

\* Lines 104-125: one query. search_jobs returns result; nothing more happens
\* for an empty result.
DiscoverQuery ==
  /\ disc.pc = "running"
  /\ disc.left > 0
  /\ \E result \in ScraperResults :
       LET r == ProcessQuery(jobs, remote,
                             [found_jobs |-> disc.found_jobs, seen_urls |-> disc.seen_urls],
                             result)
           surfaced == Range(UrlsOf(result))
           passed == Range(UrlsOf(r.added))
       IN /\ jobs' = IF result = <<>> THEN jobs ELSE r.table
          /\ disc' = IF result = <<>> THEN [disc EXCEPT !.left = @ - 1]
                     ELSE [disc EXCEPT !.left = @ - 1,
                                       !.found_jobs = r.acc.found_jobs,
                                       !.seen_urls = r.acc.seen_urls]
          /\ hist' = [hist EXCEPT
                        !.firsts = FirstOccurrences(@, hist.before, result),
                        !.surfaced = @ \cup surfaced,
                        !.twice = @ \cup (surfaced \cap hist.surfaced),
                        !.addCalls = [u \in CardUrls |->
                                        IF result # <<>> /\ u \in passed
                                        THEN @[u] + 1 ELSE @[u]]]
  /\ UNCHANGED <<remote, persisted, last, canonVars, sj, otherVars>>

\* Line 105: search_jobs raises (it catches Playwright errors only); the node
\* does not catch it and no found_jobs is returned.
DiscoverRaises ==
  /\ disc.pc = "running"
  /\ disc.left > 0
  /\ disc' = [pc |-> "raised", left |-> 0, found_jobs |-> <<>>, seen_urls |-> {}]
  /\ UNCHANGED <<hist, storeVars, canonVars, sj, otherVars>>

\* Line 127: the loop is over; found_jobs goes to the scoring phase.
DiscoverReturn ==
  /\ disc.pc = "running"
  /\ disc.left = 0
  /\ disc' = [disc EXCEPT !.pc = "returned"]
  /\ hist' = [hist EXCEPT !.handed = [u \in CardUrls |->
                 @[u] + Cardinality({i \in DOMAIN disc.found_jobs :
                                       disc.found_jobs[i].job_url = u})]]
  /\ UNCHANGED <<storeVars, canonVars, sj, otherVars>>

NextDiscovery == StartRun \/ DiscoverQuery \/ DiscoverRaises \/ DiscoverReturn

SpecDiscovery == InitDiscovery /\ [][NextDiscovery]_vars

(***************************************************************************)
(* Claims about the listing store, checked under SpecStore.                *)
(***************************************************************************)
RowsWithUrl(u) == {i \in DOMAIN jobs : jobs[i].url = u}

\* C1: add_jobs given the same listings right after add_jobs(L) returns 0 and
\* leaves the table as the first call left it, and each listing of L has
\* exactly one row.
C1_AddJobsIdempotent ==
  (last.op = "add_jobs" /\ last.after >= 0) =>
    /\ last.ret = 0
    /\ ~last.changed
    /\ \A l \in last.listed : Cardinality(RowsWithUrl(l.job_url)) = 1

\* The second add_jobs(L) of a pair whose first call inserted every listing.
C1_Witness ==
  /\ last.op = "add_jobs"
  /\ last.given = 2
  /\ last.after = 2
  /\ last.ret = 0
  /\ Len(jobs) = 2

\* C2: get_new_jobs given the job_urls of L right after add_jobs(L) returns
\* the empty sequence.
C2_NoNewJobsAfterAdd ==
  (last.op = "get_new_jobs" /\ last.after >= 0) => last.ret = <<>>

\* get_new_jobs on two URLs that the add_jobs call before it has just inserted.
C2_Witness ==
  /\ last.op = "get_new_jobs"
  /\ last.given = 2
  /\ last.after = 2
  /\ last.ret = <<>>

\* C3: update_scores returns the number of pairs whose id has a row; a pair
\* whose id has none changes nothing and counts 0; every id that has a row is
\* left scored with the last score given for it.
C3_UpdateScoresCountsModifiedRows ==
  last.op = "update_scores" =>
    /\ last.ret = last.hits
    /\ last.hits = 0 => ~last.changed
    /\ \A p \in last.want :
         \E i \in DOMAIN jobs : /\ jobs[i].id = p[1]
                                /\ jobs[i].status = "scored"
                                /\ jobs[i].relevance_score = p[2]

\* update_scores([(md5(url 1), 87), (doesnotexist, 50)]) on a store holding
\* only url 1: it returned 1 and the row is scored 87.
C3_Witness ==
  /\ last.op = "update_scores"
  /\ last.given = 2
  /\ last.hits = 1
  /\ last.ret = 1
  /\ last.want = {<<Md5Hex(Url(1)), 87>>}
  /\ Len(jobs) = 1
  /\ jobs[1].status = "scored"
  /\ jobs[1].relevance_score = 87

\* In every state: a row is scored exactly when a score was persisted for its
\* id, and exactly then it has a relevance_score.
LifecycleInv ==
  \A i \in DOMAIN jobs :
    /\ jobs[i].status \in {"discovered", "scored"}
    /\ jobs[i].status = "scored" <=> jobs[i].id \in persisted
    /\ jobs[i].status = "discovered" <=> jobs[i].relevance_score = NoScore

\* In every step: each row stays (same rowid order, same id and url), a scored
\* row stays scored, and a row that appears is discovered and has no score.
LifecycleStep ==
  /\ Len(jobs') >= Len(jobs)
  /\ \A i \in DOMAIN jobs :
       /\ jobs'[i].id = jobs[i].id
       /\ jobs'[i].url = jobs[i].url
       /\ jobs[i].status = "scored" => jobs'[i].status = "scored"
  /\ \A i \in DOMAIN jobs' \ DOMAIN jobs :
       jobs'[i].status = "discovered" /\ jobs'[i].relevance_score = NoScore

\* C4: over any sequence of constructions, add_jobs and update_scores calls a
\* row goes discovered -> scored, is scored exactly when a score was persisted
\* for its id, never goes back, and is never removed.
C4_Lifecycle == []LifecycleInv /\ [][LifecycleStep]_vars

\* add_jobs was just called with a listing whose row is already scored.
C4_Witness ==
  /\ last.op = "add_jobs"
  /\ \E i \in DOMAIN jobs : /\ jobs[i].status = "scored"
                            /\ jobs[i].url \in {l.job_url : l \in last.listed}
  /\ \E i \in DOMAIN jobs : jobs[i].status = "discovered"

(***************************************************************************)
(* Claims about the canonicalizer, checked under SpecCanon.                *)
(***************************************************************************)
\* The URL has a scheme (letters, then ":") and, after "//", a host.
HasSchemeAndHost(base) ==
  \E n \in 1..Len(base) :
    /\ \A k \in 1..n : base[k] \in Alpha
    /\ Len(base) >= n + 4
    /\ SubSeq(base, n + 1, n + 3) = <<":", "/", "/">>
    /\ base[n + 4] # "/"

\* C5 as stated: any two URLs that differ only in query string or fragment
\* have equal canonical forms and equal ids.
C5_AnyUrls ==
  canon.pc = "done" => (canon.c1 = canon.c2 /\ canon.id1 = canon.id2)

\* C5, amended: two URLs with a scheme and a host that differ only in query
\* string or fragment have the same canonical form, which is their common part
\* before the query and fragment, and the same id.
C5_AbsoluteUrls ==
  (canon.pc = "done" /\ HasSchemeAndHost(urls.base)) =>
    /\ canon.c1 = urls.base
    /\ canon.c2 = urls.base
    /\ canon.id1 = canon.id2

\* scheme://host/ with a query on one URL and a fragment on the other.
C5_Witness ==
  /\ canon.pc = "done"
  /\ HasSchemeAndHost(urls.base)
  /\ Len(urls.base) = 6
  /\ urls.base[6] = "/"
  /\ Len(urls.s1) = 2 /\ urls.s1[1] = "?"
  /\ Len(urls.s2) = 2 /\ urls.s2[1] = "#"
  /\ canon.c1 = canon.c2

(***************************************************************************)
(* Claims about the discovery node, checked under SpecDiscovery.           *)
(***************************************************************************)
FoundUrls == Range(UrlsOf(disc.found_jobs))

\* C6: found_jobs holds no two listings with the same job_url; it is the first
\* listing returned for each kept URL, in the order the scraper returned them;
\* no URL is passed to add_jobs by more than one call of the run.
C6_InRunDedup ==
  disc.pc \in {"running", "returned"} =>
    /\ \A i, j \in DOMAIN disc.found_jobs :
         disc.found_jobs[i].job_url = disc.found_jobs[j].job_url => i = j
    /\ disc.found_jobs = hist.firsts
    /\ \A u \in CardUrls : hist.addCalls[u] <= 1

\* Two queries of the run surfaced one URL that was new to the store: add_jobs
\* got it once, and found_jobs holds it next to a second listing.
C6_Witness ==
  /\ disc.pc = "returned"
  /\ Len(disc.found_jobs) = 2
  /\ \E u \in hist.twice : /\ u \in FoundUrls
                           /\ hist.addCalls[u] = 1

\* C7: when the node returns, every listing of found_jobs has a non-empty URL
\* that the store did not hold before the run and holds now, and every
\* non-empty URL the scraper returned that was new to the store is in
\* found_jobs.
C7_NovelAndPersisted ==
  disc.pc = "returned" =>
    /\ <<>> \notin FoundUrls
    /\ FoundUrls \cap hist.before = {}
    /\ FoundUrls \subseteq StoredUrls(jobs)
    /\ GetNewJobs(jobs, UrlsOf(disc.found_jobs)) = <<>>
    /\ (hist.surfaced \ (hist.before \cup {<<>>})) \subseteq FoundUrls

\* The scraper returned a listing without URL, one whose URL the store held
\* and one whose URL was new; only the last is in found_jobs.
C7_Witness ==
  /\ disc.pc = "returned"
  /\ <<>> \in hist.surfaced
  /\ hist.surfaced \cap hist.before # {}
  /\ Len(disc.found_jobs) = 1
  /\ FoundUrls \subseteq StoredUrls(jobs)

\* C8: over all the runs on one store, no URL is in the found_jobs of more
\* than one run.
C8_HandedToScoringAtMostOnce ==
  \A u \in CardUrls : hist.handed[u] <= 1

\* A run has returned whose scraper surfaced a URL that an earlier run had
\* handed to scoring.
C8_Witness ==
  /\ disc.pc = "returned"
  /\ \E u \in hist.surfaced : /\ u \in hist.before
                              /\ hist.handed[u] = 1
                              /\ u \notin FoundUrls

(***************************************************************************)
(* The search scraper: LinkedInScraper.search_jobs                         *)
(* (src/tools/linkedin_scraper.py).                                        *)
(***************************************************************************)
DefaultLimit == 100

\* A result card of the page:
\*   ok      every selector reads; the link's href carries a tracking query
\*   nolink  no a.base-card__full-link element, or one with an empty href
\*   error   reading the card throws a Playwright error (timeout, transport)
OkCard(i) == [kind |-> "ok", href |-> Url(i) \o <<"?", "a">>, payload |-> FullPayload]
NoLinkCard == [kind |-> "nolink", href |-> <<>>, payload |-> BarePayload]
ErrorCard == [kind |-> "error", href |-> <<>>, payload |-> BarePayload]
Cards == {OkCard(i) : i \in 1..MaxUrls} \cup {NoLinkCard, ErrorCard}
CardLists == SeqsUpTo(Cards, MaxCards)

\* Lines 160-201: the JobListing built from a card that has a link.
ParseCard(card) == Listing(CanonicalizeJobUrl(card.href), card.payload)

\* browser.close(): the session is closed.
BrowserClose(s) == [s EXCEPT !.open = FALSE, !.closes = @ + 1]

\* The with block left without stopping Playwright.
LeaveWithoutStop(s) == s

\* Leaving `with sync_playwright() as p:` by return or by an exception stops
\* Playwright, which closes a browser that is still open.
LeaveWith(s) == IF s.open THEN [s EXCEPT !.open = FALSE, !.closes = @ + 1] ELSE s

SearchVars == <<storeVars, canonVars, discVars, otherVars>>

InitSearch ==
  /\ SearchIdle
  /\ StoreIdle
  /\ CanonIdle
  /\ DiscIdle
  /\ OthersIdle

\* Lines 94-101: results = [], the browser is launched and a page opened. The
\* page will show `cards`; the caller passes `limit`.
SearchStart ==
  /\ sj.pc \in {"idle", "returned", "raised"}
  /\ \E cards \in CardLists, limit \in {1, DefaultLimit} :
       sj' = [pc |-> "goto", cards |-> cards, next |-> 1, limit |-> limit,
              results |-> <<>>, open |-> TRUE, closes |-> 0, failed |-> FALSE]
  /\ UNCHANGED SearchVars

\* Lines 103-108: page.goto; a timeout or Playwright error closes the browser
\* and returns results.
SearchGoto ==
  /\ sj.pc = "goto"
  /\ \/ sj' = [sj EXCEPT !.pc = "modal"]
     \/ sj' = LeaveWith(BrowserClose([sj EXCEPT !.pc = "returned", !.failed = TRUE]))
  /\ UNCHANGED SearchVars

\* Lines 110-117: the sign-in modal is dismissed if it shows; any exception is
\* swallowed.
SearchModal ==
  /\ sj.pc = "modal"
  /\ sj' = [sj EXCEPT !.pc = "wait"]
  /\ UNCHANGED SearchVars

\* Lines 119-139: wait for the results list and collect the cards; a
\* Playwright error (the wait timing out) closes the browser and returns
\* results.
SearchWait ==
  /\ sj.pc = "wait"
  /\ \/ sj' = [sj EXCEPT !.pc = "cards"]
     \/ sj' = LeaveWith(BrowserClose([sj EXCEPT !.pc = "returned", !.failed = TRUE]))
  /\ UNCHANGED SearchVars

\* Lines 142-205: one iteration of the loop over the cards.
SearchCard ==
  /\ sj.pc = "cards"
  /\ sj.next <= Len(sj.cards)
  /\ Len(sj.results) < sj.limit
  /\ LET card == sj.cards[sj.next]
     IN CASE card.kind = "ok" ->
               \* lines 160-201
               sj' = [sj EXCEPT !.next = @ + 1,
                                !.results = Append(@, ParseCard(card))]
          [] card.kind = "nolink" ->
               \* lines 166-177: job_url and canonical_url are None, and
               \* canonical_url.encode raises AttributeError, which the
               \* handler of line 202 does not catch; the exception leaves
               \* the with block of line 96
               sj' = LeaveWith([sj EXCEPT !.pc = "raised"])
          [] card.kind = "error" ->
               \* lines 202-205
               sj' = LeaveWith(BrowserClose([sj EXCEPT !.pc = "returned", !.failed = TRUE]))
  /\ UNCHANGED SearchVars

\* Lines 144-145 and 207-209: the loop ends at the limit or after the last
\* card; the browser is closed and results returned.
SearchFinish ==
  /\ sj.pc = "cards"
  /\ sj.next > Len(sj.cards) \/ Len(sj.results) >= sj.limit
  /\ sj' = LeaveWith(BrowserClose([sj EXCEPT !.pc = "returned"]))
  /\ UNCHANGED SearchVars

NextSearch ==
  SearchStart \/ SearchGoto \/ SearchModal \/ SearchWait \/ SearchCard \/ SearchFinish

SpecSearch == InitSearch /\ [][NextSearch]_vars

(***************************************************************************)
(* Claims about search_jobs, checked under SpecSearch.                     *)
(***************************************************************************)
\* C9: search_jobs does not raise on a timeout or transport error and returns
\* no partial results: once navigation, the wait for the results list or the
\* reading of a card has failed, the call returns the empty sequence.
C9_FailureReturnsEmpty ==
  sj.failed => (sj.pc = "returned" /\ sj.results = <<>>)

\* The listings of the cards that have a link, in document order, up to limit.
RECURSIVE ListingsOf(_, _)
ListingsOf(cards, limit) ==
  IF cards = <<>> \/ limit = 0 THEN <<>>
  ELSE IF Head(cards).kind = "ok"
       THEN <<ParseCard(Head(cards))>> \o ListingsOf(Tail(cards), limit - 1)
       ELSE ListingsOf(Tail(cards), limit)

\* C10: a card without URL is skipped: the call does not fail, and once it is
\* over it has returned the listings of all the other cards.
C10_CardWithoutUrlSkipped ==
  (/\ \E i \in DOMAIN sj.cards : sj.cards[i].kind = "nolink"
   /\ \A i \in DOMAIN sj.cards : sj.cards[i].kind # "error"
   /\ ~sj.failed) =>
    /\ sj.pc # "raised"
    /\ sj.pc = "returned" => sj.results = ListingsOf(sj.cards, sj.limit)

(***************************************************************************)
(* Two discovery runs (two processes) on one database file.  Each opens    *)
(* its own JobDatabase; SQLite runs each call's statement and commit as a  *)
(* unit, and nothing in job_discovery_node ties the get_new_jobs call of   *)
(* line 116 to the add_jobs call of line 119, so the calls of the two runs *)
(* interleave call by call.                                                *)
(***************************************************************************)
InitRace ==
  /\ jobs = PostInit(<<>>)
  /\ remote = ""
  /\ persisted = {}
  /\ last = NoCall
  /\ CanonIdle
  /\ DiscIdle
  /\ SearchIdle
  /\ RaceIdle
  /\ AddsIdle
  /\ FetchIdle
  /\ ScorerIdle

\* Line 105 in run r: search_jobs returns result; lines 112-113 skip an empty
\* one.
RaceSearch(r) ==
  /\ race[r].pc = "idle"
  /\ \E result \in ScraperResults :
       race' = [race EXCEPT ![r] = [pc |-> IF result = <<>> THEN "done" ELSE "searched",
                                    result |-> result, new_urls |-> {},
                                    found_jobs |-> <<>>]]
  /\ UNCHANGED <<storeVars, canonVars, discVars, sj, adds, sd, sc>>

\* Lines 115-116 in run r: new_urls = set(db.get_new_jobs(urls)).
RaceGetNewJobs(r) ==
  /\ race[r].pc = "searched"
  /\ LET urlList == SelectSeq(UrlsOf(race[r].result), LAMBDA u : u # <<>>)
     IN race' = [race EXCEPT ![r].pc = "checked",
                             ![r].new_urls = Range(GetNewJobs(jobs, urlList))]
  /\ UNCHANGED <<storeVars, canonVars, discVars, sj, adds, sd, sc>>

\* Lines 117-125 in run r: the jobs reported new are handed to add_jobs, whose
\* count is dropped, and merged into found_jobs.
RaceAddJobs(r) ==
  /\ race[r].pc = "checked"
  /\ LET filtered_jobs == FilterNew(race[r].result, race[r].new_urls)
     IN /\ jobs' = IF filtered_jobs # <<>> THEN AddJobs(jobs, remote, filtered_jobs).table
                   ELSE jobs
        /\ race' = [race EXCEPT
                      ![r].pc = "done",
                      ![r].found_jobs =
                         Merge([found_jobs |-> <<>>, seen_urls |-> {}], filtered_jobs).found_jobs]
  /\ UNCHANGED <<remote, persisted, last, canonVars, discVars, sj, adds, sd, sc>>

NextRace == \E r \in Runs : RaceSearch(r) \/ RaceGetNewJobs(r) \/ RaceAddJobs(r)

SpecRace == InitRace /\ [][NextRace]_vars

(***************************************************************************)
(* Claims about interleaved runs, checked under SpecRace.                  *)
(***************************************************************************)
RaceFound(r) == Range(UrlsOf(race[r].found_jobs))

\* C11: however the get_new_jobs and add_jobs calls of two runs on one store
\* interleave, no URL is in the found_jobs of both runs, and a URL that is in
\* the found_jobs of a run has exactly one row.
C11_NoDoubleNovel ==
  \A u \in JobUrls :
    /\ ~(u \in RaceFound(1) /\ u \in RaceFound(2))
    /\ (u \in RaceFound(1) \cup RaceFound(2)) => Cardinality(RowsWithUrl(u)) = 1

\* The part of C11 about the table alone.
RaceOneRowPerUrl ==
  \A u \in JobUrls : Cardinality(RowsWithUrl(u)) <= 1

(***************************************************************************)
(* add_jobs on stores opened with different remote tags                    *)
(* (src/utils/storage.py).                                                 *)
(***************************************************************************)
\* remote_filters[0] if len(remote_filters) == 1 else "": the tag of a store.
RemoteTags == {"", "remote"}

\* The index of the first listing of the batch with the given URL.
FirstWith(batch, u) ==
  CHOOSE i \in DOMAIN batch :
    /\ batch[i].job_url = u
    /\ \A j \in DOMAIN batch : batch[j].job_url = u => i <= j

InitAddJobs ==
  /\ jobs = PostInit(<<>>)
  /\ remote \in RemoteTags
  /\ persisted = {}
  /\ last = NoCall
  /\ CanonIdle
  /\ DiscIdle
  /\ SearchIdle
  /\ RaceIdle
  /\ AddsIdle
  /\ FetchIdle
  /\ ScorerIdle

\* JobDatabase(remote=tag) on the existing file, between two calls.
Reopen ==
  /\ adds.op = "other"
  /\ \E tag \in RemoteTags : remote' = tag
  /\ jobs' = PostInit(jobs)
  /\ adds' = NoAddJobs(adds.written)
  /\ UNCHANGED <<persisted, last, canonVars, discVars, sj, race, sd, sc>>

\* db.add_jobs(batch).  History: for a URL that had no row, what the call
\* supplied for it, namely its first listing in the batch and the store's tag.
AddBatch ==
  /\ adds.op = "other"
  /\ \E batch \in Batches :
       LET r == AddJobs(jobs, remote, batch)
           fresh == Range(UrlsOf(batch)) \ StoredUrls(jobs)
       IN /\ jobs' = r.table
          /\ adds' = [op |-> "add_jobs", batch |-> batch, before |-> jobs, ret |-> r.ret,
                      written |-> [u \in JobUrls |->
                                     IF u \in fresh
                                     THEN Written(RowOf(batch[FirstWith(batch, u)], remote))
                                     ELSE adds.written[u]]]
  /\ UNCHANGED <<remote, persisted, last, canonVars, discVars, sj, race, sd, sc>>

\* db.update_scores([(id, 87)]) for the id of one URL.
ScoreOne ==
  /\ adds.op = "other"
  /\ \E u \in JobUrls :
       /\ jobs' = UpdateScores(jobs, <<<<Md5Hex(u), 87>>>>).table
       /\ persisted' = persisted \cup ({Md5Hex(u)} \cap IdsIn(jobs))
  /\ adds' = NoAddJobs(adds.written)
  /\ UNCHANGED <<remote, last, canonVars, discVars, sj, race, sd, sc>>

\* The caller has the count add_jobs returned and goes on; the record of the
\* call is dropped.
AddReturn ==
  /\ adds.op = "add_jobs"
  /\ adds' = NoAddJobs(adds.written)
  /\ UNCHANGED <<storeVars, canonVars, discVars, sj, race, sd, sc>>

NextAddJobs == Reopen \/ AddBatch \/ AddReturn \/ ScoreOne

SpecAddJobs == InitAddJobs /\ [][NextAddJobs]_vars

(***************************************************************************)
(* Claims about add_jobs, checked under SpecAddJobs.                       *)
(***************************************************************************)
\* C12: add_jobs leaves every row the table held as it was, in all its
\* columns, and the descriptive columns of every row are those supplied by the
\* call that first inserted its URL.
C12_FirstWriteWins ==
  /\ adds.op = "add_jobs" =>
       /\ Len(jobs) >= Len(adds.before)
       /\ \A i \in DOMAIN adds.before : jobs[i] = adds.before[i]
  /\ \A i \in DOMAIN jobs : Written(jobs[i]) = adds.written[jobs[i].url]

\* add_jobs was given a listing for a URL whose row had been scored, with
\* other descriptive fields and under another remote tag than the row's.
C12_Witness ==
  /\ adds.op = "add_jobs"
  /\ \E i \in DOMAIN adds.before, k \in DOMAIN adds.batch :
       /\ adds.batch[k].job_url = adds.before[i].url
       /\ adds.batch[k].title # adds.before[i].title
       /\ remote # adds.before[i].remote
       /\ adds.before[i].status = "scored"
       /\ jobs[i] = adds.before[i]

BatchUrls == Range(UrlsOf(adds.batch))

\* C13: add_jobs inserts a row for every URL of the batch that had none,
\* built from the first listing of the batch with that URL, and returns the
\* number of rows it inserted; a URL of the batch has exactly one row
\* afterwards, however often the batch holds it.
C13_InsertsAbsentCountsInserted ==
  adds.op = "add_jobs" =>
    /\ StoredUrls(jobs) = StoredUrls(adds.before) \cup BatchUrls
    /\ adds.ret = Len(jobs) - Len(adds.before)
    /\ adds.ret = Cardinality(BatchUrls \ StoredUrls(adds.before))
    /\ \A u \in BatchUrls : Cardinality(RowsWithUrl(u)) = 1
    /\ \A u \in BatchUrls \ StoredUrls(adds.before) :
         \E i \in DOMAIN jobs :
           jobs[i] = RowOf(adds.batch[FirstWith(adds.batch, u)], remote)

\* A batch held two different listings for one URL that had no row: one row
\* was inserted, from the first of them, and counted once.
C13_Witness ==
  /\ adds.op = "add_jobs"
  /\ adds.ret = 1
  /\ Len(adds.batch) = 2
  /\ adds.batch[1].job_url = adds.batch[2].job_url
  /\ adds.batch[1] # adds.batch[2]
  /\ adds.batch[1].job_url \notin StoredUrls(adds.before)
  /\ jobs[Len(jobs)] = RowOf(adds.batch[1], remote)

(***************************************************************************)
(* The description fetcher: LinkedInScraper.scrape_job_descriptions        *)
(* (src/tools/linkedin_scraper.py).                                        *)
(***************************************************************************)
\* description_selectors, lines 226-231.  The text found under a selector is
\* named after the selector.
Selectors ==
  <<"div.show-more-less-html__markup", "div.description__text",
    "section.show-more-less-html", "div.jobs-description__content">>

\* What one selector does on a loaded page:
\*   absent  query_selector returns None
\*   error   query_selector or inner_text raises a Playwright error
\*   blank   the element's text is empty after strip()
\*   text    the element has text
SelectorOutcomes == [DOMAIN Selectors -> {"absent", "error", "blank", "text"}]

\* Lines 247-256: description_text after the selector loop from selector k on.
RECURSIVE Extract(_, _, _)
Extract(outs, k, description_text) ==
  IF k > Len(Selectors) THEN description_text
  ELSE CASE outs[k] = "text" -> Selectors[k]
         [] outs[k] = "blank" -> Extract(outs, k + 1, "")
         [] OTHER -> Extract(outs, k + 1, description_text)

\* The lists of listings the fetcher is given: as job_discovery_node builds
\* found_jobs, no two listings share a URL; a listing may lack a URL.
FetchInputs ==
  {list \in SeqsUpTo(Listings \cup {Listing(<<>>, BarePayload)}, MaxJobs) :
     \A i, j \in DOMAIN list : list[i].id = list[j].id => i = j}

InitFetch ==
  /\ FetchIdle
  /\ StoreIdle
  /\ CanonIdle
  /\ DiscIdle
  /\ SearchIdle
  /\ RaceIdle
  /\ AddsIdle
  /\ ScorerIdle

FetchVars == <<storeVars, canonVars, discVars, sj, race, adds, sc>>

\* Lines 222-238: no jobs returns the empty dict without a browser; otherwise
\* the browser is launched and a page opened.
FetchStart ==
  /\ sd.pc \in {"idle", "returned", "raised"}
  /\ \E list \in FetchInputs :
       sd' = IF list = <<>>
             THEN [FetchIdleState EXCEPT !.pc = "returned"]
             ELSE [FetchIdleState EXCEPT !.pc = "loop", !.jobs = list,
                                         !.open = TRUE, !.opened = 1]
  /\ UNCHANGED FetchVars

\* Lines 241-242: a listing without URL is passed over.
FetchSkip ==
  /\ sd.pc = "loop"
  /\ sd.next <= Len(sd.jobs)
  /\ sd.jobs[sd.next].job_url = <<>>
  /\ sd' = [sd EXCEPT !.next = @ + 1]
  /\ UNCHANGED FetchVars

\* Lines 243-269 for one listing with a URL.  page.goto or the wait of line
\* 245 raises (handler of line 264, continue), or the page loads and the
\* selectors are tried in order; after a page that loaded, the delay of line
\* 269 runs outside the try and may raise a Playwright error (the page or the
\* browser is gone), which leaves the with block of line 233.
\* History: attempted, and in want the text of the first selector with text.
FetchListing ==
  /\ sd.pc = "loop"
  /\ sd.next <= Len(sd.jobs)
  /\ sd.jobs[sd.next].job_url # <<>>
  /\ LET job == sd.jobs[sd.next]
         tried == [sd EXCEPT !.attempted = Append(@, sd.next)]
     IN \/ sd' = [tried EXCEPT !.next = @ + 1]
        \/ \E outs \in SelectorOutcomes, delay \in {"ok", "error"} :
             LET description_text == Extract(outs, 1, NULL)
                 hits == {k \in DOMAIN Selectors : outs[k] = "text"}
                 first == IF hits = {} THEN NULL
                          ELSE Selectors[CHOOSE k \in hits : \A m \in hits : k <= m]
                 done == [tried EXCEPT
                            !.descriptions[job.id] =
                               IF description_text \notin {NULL, ""}
                               THEN description_text ELSE @,
                            !.want[job.id] = first]
             IN sd' = IF delay = "ok" THEN [done EXCEPT !.next = @ + 1]
                      ELSE LeaveWith([done EXCEPT !.pc = "raised"])
  /\ UNCHANGED FetchVars

\* Lines 271-273: after the last listing the browser is closed and
\* descriptions returned.
FetchFinish ==
  /\ sd.pc = "loop"
  /\ sd.next > Len(sd.jobs)
  /\ sd' = LeaveWith(BrowserClose([sd EXCEPT !.pc = "returned"]))
  /\ UNCHANGED FetchVars

NextFetch == FetchStart \/ FetchSkip \/ FetchListing \/ FetchFinish

SpecFetch == InitFetch /\ [][NextFetch]_vars

\* One scraper at a time: the behaviour calls search_jobs, or it calls
\* scrape_job_descriptions.
InitSessions ==
  /\ \/ SearchIdle /\ sd = [FetchIdleState EXCEPT !.pc = "unused"]
     \/ FetchIdle /\ sj = [pc |-> "unused", cards |-> <<>>, next |-> 1, limit |-> 0,
                           results |-> <<>>, open |-> FALSE, closes |-> 0,
                           failed |-> FALSE]
  /\ StoreIdle
  /\ CanonIdle
  /\ DiscIdle
  /\ RaceIdle
  /\ AddsIdle
  /\ ScorerIdle

NextSessions == NextSearch \/ NextFetch

SpecSessions == InitSessions /\ [][NextSessions]_vars

(***************************************************************************)
(* Claims about the browser sessions, checked under SpecSessions.          *)
(***************************************************************************)
\* C14: when search_jobs or scrape_job_descriptions has returned or raised,
\* the browser session it opened has been closed exactly once and is not
\* open; no session is closed twice, and a call that opened none closed none.
C14_SessionClosedOnce ==
  /\ sj.closes <= 1
  /\ sd.closes <= sd.opened
  /\ sj.pc \in {"returned", "raised"} => (sj.closes = 1 /\ ~sj.open)
  /\ sd.pc \in {"returned", "raised"} => (sd.closes = sd.opened /\ ~sd.open)

\* scrape_job_descriptions raised out of its loop with the session it opened
\* closed.
C14_Witness ==
  /\ sd.pc = "raised"
  /\ sd.opened = 1
  /\ sd.closes = 1
  /\ ~sd.open

(***************************************************************************)
(* Claims about scrape_job_descriptions, checked under SpecFetch.          *)
(***************************************************************************)
\* The listings of the input that have a URL, in input order.
WithUrl == SelectSeq([i \in DOMAIN sd.jobs |-> i], LAMBDA i : sd.jobs[i].job_url # <<>>)

\* C15: when scrape_job_descriptions is over, every listing of the input with
\* a URL has been attempted, in input order, whatever failed on the listings
\* before it; the result holds an id exactly if a selector yielded text for
\* its listing, with the text of the first selector that did.
C15_EveryListingAttempted ==
  sd.pc \in {"returned", "raised"} =>
    /\ sd.attempted = WithUrl
    /\ sd.descriptions = sd.want

\* What C15 says, for the calls that return.
FetchReturnedComplete ==
  sd.pc = "returned" =>
    /\ sd.attempted = WithUrl
    /\ sd.descriptions = sd.want

\* ---------------------------------------------------------------------------
\* relevance_scorer_node (agents/nodes.py): the found_jobs of the discovery
\* phase are scored in batches and the scores are persisted.
\* ---------------------------------------------------------------------------

batch_size == 5

\* A JobScore the scorer returns for a listing id.
JobScoreFor(id) == [job_id |-> id, relevance_score |-> 87]

\* found_jobs[i : i + batch_size], with i counted from 1.
BatchAt(found_jobs, i) ==
  SubSeq(found_jobs, i, IF i + batch_size - 1 < Len(found_jobs)
                        THEN i + batch_size - 1 ELSE Len(found_jobs))

\* What structured_llm.invoke can give back for a batch: scores for any of the
\* listings of the batch, in their order, and possibly one more score for the
\* id of a stored listing that was not in the batch.
ScorerResults(batch, table) ==
  {[k \in 1..Len(SelectSeq(batch, LAMBDA job : job.id \in chosen)) |->
      JobScoreFor(SelectSeq(batch, LAMBDA job : job.id \in chosen)[k].id)]
     \o (IF extra = <<>> THEN <<>> ELSE <<JobScoreFor(extra)>>) :
   chosen \in SUBSET {batch[k].id : k \in DOMAIN batch},
   extra \in {<<>>} \cup (IdsIn(table) \ {batch[k].id : k \in DOMAIN batch})}

\* The except branch that ends the whole loop instead of the iteration.
ScoringFailedBreaks(s, batch) ==
  [s EXCEPT !.i = Len(s.found_jobs) + 1,
            !.outcomes = Append(@, [batch |-> batch, failed |-> TRUE, scores |-> <<>>])]

\* Lines 197-199: the invocation raised; the batch is logged and skipped.
ScoringFailed(s, batch) ==
  [s EXCEPT !.i = @ + batch_size,
            !.outcomes = Append(@, [batch |-> batch, failed |-> TRUE, scores |-> <<>>])]

\* Lines 193-196: the invocation returned; its scores extend all_scores.
ScoringReturned(s, batch, scores) ==
  [s EXCEPT !.i = @ + batch_size,
            !.all_scores = @ \o scores,
            !.outcomes = Append(@, [batch |-> batch, failed |-> FALSE, scores |-> scores]),
            !.foreign = @ \/ \E k \in DOMAIN scores :
                               scores[k].job_id \notin {batch[j].id : j \in DOMAIN batch}]

\* Lines 159-162: the node reads found_jobs and profile from the state that
\* the discovery phase returned; with either missing it returns at once.
ScorerStart ==
  /\ disc.pc = "returned"
  /\ sc.pc = "idle"
  /\ \E profile \in BOOLEAN :
       sc' = IF disc.found_jobs = <<>> \/ ~profile
             THEN [sc EXCEPT !.pc = "returned", !.found_jobs = disc.found_jobs]
             ELSE [sc EXCEPT !.pc = "fetch", !.found_jobs = disc.found_jobs, !.i = 1]
  /\ disc' = [disc EXCEPT !.pc = "scoring"]
  /\ UNCHANGED <<hist, storeVars, canonVars, sj, race, adds, sd>>

\* Lines 168-169: scrape_job_descriptions returns a dict, or raises; the call
\* is outside any try, so the node raises with it.
ScorerFetch ==
  /\ sc.pc = "fetch"
  /\ \E raises \in BOOLEAN :
       sc' = [sc EXCEPT !.pc = IF raises THEN "raised" ELSE "batches"]
  /\ UNCHANGED <<storeVars, canonVars, discVars, sj, race, adds, sd>>

\* Lines 179-199: one iteration of the batch loop.
ScoreBatch ==
  /\ sc.pc = "batches"
  /\ sc.i <= Len(sc.found_jobs)
  /\ LET batch == BatchAt(sc.found_jobs, sc.i)
     IN \/ sc' = ScoringFailed(sc, batch)
        \/ \E scores \in ScorerResults(batch, jobs) :
             sc' = ScoringReturned(sc, batch, scores)
  /\ UNCHANGED <<storeVars, canonVars, discVars, sj, race, adds, sd>>

\* Lines 201-207: the store is opened, update_scores is called once with one
\* tuple per collected score, and all_scores is returned as scored_jobs.
ScorerPersist ==
  /\ sc.pc = "batches"
  /\ sc.i > Len(sc.found_jobs)
  /\ \E tag \in Tags :
       LET score_tuples == [k \in DOMAIN sc.all_scores |->
                              <<sc.all_scores[k].job_id, sc.all_scores[k].relevance_score>>]
           db == PostInit(jobs)
           updated == UpdateScores(db, score_tuples)
       IN /\ jobs' = updated.table
          /\ remote' = tag
          /\ persisted' = persisted \cup
                            ({score_tuples[k][1] : k \in DOMAIN score_tuples} \cap IdsIn(db))
          /\ sc' = [sc EXCEPT !.pc = "returned",
                              !.updates = @ + 1,
                              !.passed = score_tuples,
                              !.scored_jobs = sc.all_scores]
  /\ UNCHANGED <<last, canonVars, discVars, sj, race, adds, sd>>

NextScorer == ScorerStart \/ ScorerFetch \/ ScoreBatch \/ ScorerPersist

\* found_jobs of n listings that a discovery run has just inserted.
FoundJobs(n) == [k \in 1..n |-> Listing(Url(k), FullPayload)]

\* The discovery phase has returned up to MaxFound new listings.
InitScorer ==
  /\ \E n \in 0..MaxFound :
       /\ jobs = AddJobs(<<>>, "", FoundJobs(n)).table
       /\ disc = [pc |-> "returned", left |-> 0, found_jobs |-> FoundJobs(n),
                  seen_urls |-> {Url(k) : k \in 1..n}]
  /\ hist = NoHistory
  /\ remote = ""
  /\ persisted = {}
  /\ last = NoCall
  /\ CanonIdle
  /\ SearchIdle
  /\ OthersIdle

SpecScorer == InitScorer /\ [][NextScorer]_vars

\* The batches of a found_jobs list, in submission order.
BatchesOf(found_jobs) ==
  [k \in 1..((Len(found_jobs) + batch_size - 1) \div batch_size) |->
     SubSeq(found_jobs, batch_size * (k - 1) + 1,
            IF batch_size * k < Len(found_jobs) THEN batch_size * k ELSE Len(found_jobs))]

RECURSIVE SuccessfulScores(_)
SuccessfulScores(outcomes) ==
  IF outcomes = <<>> THEN <<>>
  ELSE (IF Head(outcomes).failed THEN <<>> ELSE Head(outcomes).scores)
       \o SuccessfulScores(Tail(outcomes))

\* C16: once a batch has been submitted to the scorer the node does not
\* raise, whatever batches fail; when it returns, every batch of up to 5
\* listings was submitted in order, the scores returned are exactly those of
\* the successful batches (a failed batch contributes none), and they went to
\* one single update_scores call.
C16_FailedBatchSkipped ==
  /\ sc.outcomes # <<>> => sc.pc # "raised"
  /\ (sc.pc = "returned" /\ sc.outcomes # <<>>) =>
       /\ [k \in DOMAIN sc.outcomes |-> sc.outcomes[k].batch] = BatchesOf(sc.found_jobs)
       /\ sc.scored_jobs = SuccessfulScores(sc.outcomes)
       /\ sc.updates = 1
       /\ sc.passed = [k \in DOMAIN sc.scored_jobs |->
                         <<sc.scored_jobs[k].job_id, sc.scored_jobs[k].relevance_score>>]

\* The node returned after the first of two batches failed and the second
\* was scored.
C16_Witness ==
  /\ sc.pc = "returned"
  /\ Len(sc.outcomes) = 2
  /\ sc.outcomes[1].failed
  /\ ~sc.outcomes[2].failed
  /\ sc.scored_jobs # <<>>
  /\ sc.updates = 1

\* ---------------------------------------------------------------------------
\* The pipeline (agents/graph.py): a run is the discovery phase followed by
\* the scoring phase; run after run works on the same store.
\* ---------------------------------------------------------------------------

\* The ids of the rows that have no score.
Unscored(table) == {table[i].id : i \in {j \in DOMAIN table : table[j].status = "discovered"}}

\* The run is over: the scoring phase returned or raised, or the discovery
\* phase raised.  The next invocation starts from a fresh state; the store
\* stays as it is.
PipelineNext ==
  /\ \/ sc.pc \in {"returned", "raised"}
     \/ disc.pc = "raised" /\ sc.pc = "idle"
  /\ sc' = ScorerIdleState(sc.foreign, Unscored(jobs))
  /\ disc' = [pc |-> "idle", left |-> 0, found_jobs |-> <<>>, seen_urls |-> {}]
  /\ UNCHANGED <<hist, storeVars, canonVars, sj, race, adds, sd>>

\* The discovery phase as in StartRun, DiscoverQuery, DiscoverRaises and
\* DiscoverReturn, without the history kept for the discovery properties.
\* Lines 84-102.
RunStart ==
  /\ disc.pc = "idle"
  /\ sc.pc = "idle"
  /\ \E n \in 0..MaxQueries, tag \in Tags :
       IF n = 0
       THEN /\ disc' = [pc |-> "returned", left |-> 0, found_jobs |-> <<>>,
                        seen_urls |-> {}]
            /\ UNCHANGED <<jobs, remote>>
       ELSE /\ jobs' = PostInit(jobs)
            /\ remote' = tag
            /\ disc' = [pc |-> "running", left |-> n, found_jobs |-> <<>>,
                        seen_urls |-> {}]
  /\ UNCHANGED <<hist, persisted, last, canonVars, sj, otherVars>>

\* Lines 104-125: one query.
RunQuery ==
  /\ disc.pc = "running"
  /\ disc.left > 0
  /\ \E result \in ScraperResults :
       LET r == ProcessQuery(jobs, remote,
                             [found_jobs |-> disc.found_jobs, seen_urls |-> disc.seen_urls],
                             result)
       IN /\ jobs' = IF result = <<>> THEN jobs ELSE r.table
          /\ disc' = IF result = <<>> THEN [disc EXCEPT !.left = @ - 1]
                     ELSE [disc EXCEPT !.left = @ - 1,
                                       !.found_jobs = r.acc.found_jobs,
                                       !.seen_urls = r.acc.seen_urls]
  /\ UNCHANGED <<hist, remote, persisted, last, canonVars, sj, otherVars>>

\* Line 105: search_jobs raises and the node with it.
RunRaises ==
  /\ disc.pc = "running"
  /\ disc.left > 0
  /\ disc' = [pc |-> "raised", left |-> 0, found_jobs |-> <<>>, seen_urls |-> {}]
  /\ UNCHANGED <<hist, storeVars, canonVars, sj, otherVars>>

\* Line 127: found_jobs goes to the scoring phase.
RunReturn ==
  /\ disc.pc = "running"
  /\ disc.left = 0
  /\ disc' = [disc EXCEPT !.pc = "returned"]
  /\ UNCHANGED <<hist, storeVars, canonVars, sj, otherVars>>

NextPipeline ==
  RunStart \/ RunQuery \/ RunRaises \/ RunReturn \/ NextScorer \/ PipelineNext

SpecPipeline == InitDiscovery /\ [][NextPipeline]_vars

\* C17: as long as the scorer has only returned ids of listings it was given,
\* a listing that was unscored when an earlier run ended is still stored as
\* 'discovered' with no relevance_score, is in no later run's found_jobs and
\* is in no later update_scores call.
C17_UnscoredStaysUnscored ==
  ~sc.foreign =>
    \A id \in sc.orphans :
      /\ \E i \in DOMAIN jobs : /\ jobs[i].id = id
                                /\ jobs[i].status = "discovered"
                                /\ jobs[i].relevance_score = NoScore
      /\ id \notin {disc.found_jobs[k].id : k \in DOMAIN disc.found_jobs}
      /\ id \notin {sc.found_jobs[k].id : k \in DOMAIN sc.found_jobs}
      /\ id \notin {sc.passed[k][1] : k \in DOMAIN sc.passed}

\* A listing was left unscored by an earlier run, and a later run found another
\* listing and persisted a score for it.
C17_Witness ==
  /\ ~sc.foreign
  /\ sc.pc = "returned"
  /\ sc.passed # <<>>
  /\ sc.orphans # {}
  /\ \E i \in DOMAIN jobs : jobs[i].status = "scored"
====
